---- MODULE Spec2Model ----
(***************************************************************************)
(* Model of the complaint-tracking service of src/index.js: the Complaint  *)
(* collection (Mongoose model `Complaint`), the three complaint routes and *)
(* the admin login route.                                                  *)
(*                                                                         *)
(* A route handler runs to its next `await` without interruption, so each  *)
(* handler is one action per database round trip: Create is CreateBegin    *)
(* (lines 91-97 and the validation with which save() starts) followed by   *)
(* CreateInsert (the insert of line 99 and the response); UpdateStatus is  *)
(* PatchLookup (lines 118-134 and the validation with which save() starts) *)
(* followed by PatchSave (the update of line 136 and the response).  The   *)
(* validation reads only the handler's own document, so doing it in the    *)
(* first step changes no outcome.  List and Login are one action each.     *)
(*                                                                         *)
(* resp records what the last handler step was asked and what it answered; *)
(* Sent clears it before the event loop runs the next step.                *)
(***************************************************************************)
EXTENDS Integers, Sequences, FiniteSets, Bags, TLC

(* ------------------------------ bounds --------------------------------- *)
MaxComplaints == 2      \* complaints stored when requests come one at a time
MaxRaceComplaints == 1  \* complaints stored when requests overlap
MaxReq        == 2      \* requests in flight at the same time
MaxClock      == 2      \* largest value of Date.now()
MaxComments   == 1      \* stored comments after which no further comment is sent
MaxHistory    == 2      \* stored history entries after which no status change starts
MaxStrLen     == 2      \* longest login email / password

(* --------------------------- JSON values ------------------------------- *)
\* JSON null and the JavaScript `undefined` of an absent key, for string fields.
Null      == "<null>"
Undefined == "<undefined>"

\* req.body is a JSON object: a function from the keys that are present.
Has(body, k) == k \in DOMAIN body
Get(body, k) == IF Has(body, k) THEN body[k] ELSE Undefined
With(body, k, v) == [x \in DOMAIN body \cup {k} |-> IF x = k THEN v ELSE body[x]]
Without(body, k) == [x \in DOMAIN body \ {k} |-> body[x]]

\* JavaScript truthiness of a string-or-absent value (lines 126, 131).
Truthy(v) == v \notin {Undefined, Null, ""}

(* ----------------------------- schema ---------------------------------- *)
StatusEnum == {"Pending", "In Review", "Resolved", "Escalated", "Unnecessary"}
DefaultStatus == "Pending"

\* (Variant: a required check that lets "" through.)
RequiredOkMut(v) == v \notin {Undefined, Null}
\* `required: true` on a String path: absent, null and "" all fail.
RequiredOk(v) == v \notin {Undefined, Null, ""}

\* (Variant: a status path without the enum.)
EnumOkMut(v) == TRUE
\* `enum` on a String path: Mongoose's enum validator lets null through and
\* is not run on undefined.
EnumOk(v) == v \in StatusEnum \cup {Null, Undefined}

\* StatusHistorySchema: every entry needs a status.
HistoryOk(h) == \A i \in 1..Len(h) : RequiredOk(h[i].status)

\* (Variant: validation that skips the status path.)
ValidateMut(doc) ==
    /\ RequiredOk(doc.trackId)
    /\ RequiredOk(doc.description)
    /\ RequiredOk(doc.category)
    /\ HistoryOk(doc.statusHistory)
\* Document validation run by save().
Validate(doc) ==
    /\ RequiredOk(doc.trackId)
    /\ RequiredOk(doc.description)
    /\ RequiredOk(doc.category)
    /\ EnumOk(doc.status)
    /\ HistoryOk(doc.statusHistory)

\* new Complaint(req.body): every schema path is taken from the body, the
\* schema defaults fill the paths the body leaves undefined.
NewComplaint(body, oid, now) ==
    [id            |-> oid,
     trackId       |-> Get(body, "trackId"),
     description   |-> Get(body, "description"),
     category      |-> Get(body, "category"),
     status        |-> IF Has(body, "status") THEN body.status ELSE DefaultStatus,
     createdAt     |-> IF Has(body, "createdAt") THEN body.createdAt ELSE now,
     evidence      |-> IF Has(body, "evidence") THEN body.evidence ELSE Null,
     comments      |-> IF Has(body, "comments") THEN body.comments ELSE <<>>,
     statusHistory |-> IF Has(body, "statusHistory") THEN body.statusHistory ELSE <<>>]

\* Lines 94-97: the first status history entry.
PushFirstHistory(doc) ==
    [doc EXCEPT !.statusHistory =
        Append(@, [status |-> doc.status, time |-> doc.createdAt])]

(* ----------------------------- inputs ---------------------------------- *)
TrackIds == {"T1", "T2"}
GoodBody(t) == [trackId |-> t, description |-> "leak", category |-> "water"]
OldHistory == <<[status |-> "Resolved", time |-> 0]>>

\* Bodies a client can POST: the documented body, and the documented body
\* with one key dropped, emptied or added.
CreateBodies ==
    { GoodBody("T1"), With(GoodBody("T2"), "evidence", "photo.png") } \cup
    { With(GoodBody("T1"), "status", "Escalated"),
      With(GoodBody("T1"), "status", "Bogus"),
      With(GoodBody("T1"), "status", Null),
      With(GoodBody("T1"), "createdAt", 0),
      With(GoodBody("T1"), "statusHistory", OldHistory),
      With(GoodBody("T1"), "description", ""),
      With(GoodBody("T1"), "category", ""),
      With(GoodBody("T1"), "trackId", ""),
      With(GoodBody("T1"), "trackId", Null),
      Without(GoodBody("T1"), "description"),
      Without(GoodBody("T1"), "category"),
      Without(GoodBody("T1"), "trackId") }

\* The bodies posted while requests overlap: one trackId.
RaceBodies ==
    { GoodBody("T1"),
      With(GoodBody("T1"), "status", "Escalated"),
      With(GoodBody("T1"), "status", "Bogus"),
      With(GoodBody("T1"), "status", Null),
      Without(GoodBody("T1"), "trackId") }

\* ObjectIds, in the order the driver generates them, and a path parameter
\* that is not an ObjectId.
IdPool == <<"oid1", "oid2", "oid3", "oid4", "oid5", "oid6">>
BadId  == "abc"
ObjectIds == {IdPool[i] : i \in 1..Len(IdPool)}
PathIds == {IdPool[i] : i \in 1..(MaxComplaints + 1)} \cup {BadId}

PatchStatuses == {Undefined, "Resolved", "In Review", "Bogus"}
PatchComments == {Undefined, "", "checked"}

\* The PATCH inputs sent while requests overlap.
RacePathIds == {IdPool[1], IdPool[2]}
RacePatchStatuses == {Undefined, "Resolved", "Bogus"}
RacePatchComments == {Undefined, "checked"}

(* ------------------------------ state ---------------------------------- *)
VARIABLES
    store,      \* the complaints collection, in insertion order
    creating,   \* the bag of POST handlers waiting for their insert
    patching,   \* the bag of PATCH handlers waiting for their update
    clock,      \* Date.now()
    resp        \* the request served by the last step and the status code
                \* it answered (0 while the handler awaits the database)

vars == <<store, creating, patching, clock, resp>>

InFlight == BagCardinality(creating) + BagCardinality(patching)
One(r) == SetToBag({r})
NoResp == [op |-> "none", code |-> 0]

StoredIds == {store[i].id : i \in 1..Len(store)}
StoredTrackIds == {store[i].trackId : i \in 1..Len(store)}
IndexOf(oid) == CHOOSE i \in 1..Len(store) : store[i].id = oid
HeldIds == {doc.id : doc \in BagToSet(creating)}

\* new ObjectId(): an id no document has.
FreshId == IdPool[CHOOSE i \in 1..Len(IdPool) :
                    /\ IdPool[i] \notin StoredIds \cup HeldIds
                    /\ \A j \in 1..(i - 1) : IdPool[j] \in StoredIds \cup HeldIds]

Init ==
    /\ store = <<>>
    /\ creating = EmptyBag
    /\ patching = EmptyBag
    /\ clock = 1
    /\ resp = NoResp

\* Every handler step starts with the last response sent.
Quiet == resp = NoResp

Sent ==
    /\ resp # NoResp
    /\ resp' = NoResp
    /\ UNCHANGED <<store, creating, patching, clock>>

Tick ==
    /\ Quiet
    /\ clock < MaxClock
    /\ clock' = clock + 1
    /\ resp' = NoResp
    /\ UNCHANGED <<store, creating, patching>>

(* ----------------------- POST /api/complaints -------------------------- *)
\* Lines 89-99 up to the validation inside save(); a validation error is
\* caught at line 101 and answered with 400.
CreateBegin(body, cap) ==
    /\ Quiet
    /\ InFlight < MaxReq
    /\ \/ Len(store) < cap
       \/ Len(store) = cap /\ Get(body, "trackId") \in StoredTrackIds
    /\ LET doc == PushFirstHistory(NewComplaint(body, FreshId, clock))
       IN  IF Validate(doc)
           THEN /\ creating' = creating (+) One(doc)
                /\ resp' = [op |-> "create", code |-> 0, body |-> body]
           ELSE /\ creating' = creating
                /\ resp' = [op |-> "create", code |-> 400, body |-> body]
    /\ UNCHANGED <<store, patching, clock>>

\* (Variant: trackId without the unique index.)
UniqueOkMut(doc) == TRUE
\* The unique index on trackId (line 34): the insert fails with a
\* duplicate-key error when a stored document has the same trackId.
UniqueOk(doc) == doc.trackId \notin StoredTrackIds

\* Line 99 (the insert), line 100 (201) and line 102 (400).
CreateInsert(doc) ==
    /\ Quiet
    /\ BagIn(doc, creating)
    /\ IF UniqueOk(doc)
       THEN /\ store' = Append(store, doc)
            /\ resp' = [op |-> "create", code |-> 201, data |-> doc]
       ELSE /\ store' = store
            /\ resp' = [op |-> "create", code |-> 400, data |-> doc]
    /\ creating' = creating (-) One(doc)
    /\ UNCHANGED <<patching, clock>>

(* ------------------- PATCH /api/complaints/:id/status ------------------- *)
\* Complaint.findById(req.params.id) casts the path parameter to an
\* ObjectId; a string that is not one makes the query throw a CastError.
IsObjectId(pid) == pid \in ObjectIds

\* Lines 125-128.
PushComment(doc, comment) ==
    IF Truthy(comment) THEN [doc EXCEPT !.comments = Append(@, comment)] ELSE doc

\* (Variant: line 131 without the comparison with the current status.)
StatusChangesMut(doc, status) == Truthy(status)
\* Line 131.
StatusChanges(doc, status) == Truthy(status) /\ doc.status # status

\* Lines 130-134.
SetStatus(doc, status, now) ==
    IF StatusChanges(doc, status)
    THEN [doc EXCEPT !.status = status,
                     !.statusHistory = Append(@, [status |-> status, time |-> now])]
    ELSE doc

\* The handler's document after lines 125-134.
Mutated(doc, status, comment, now) == SetStatus(PushComment(doc, comment), status, now)

\* Lines 116-134 and the validation inside save(): 404 (line 122) for an id
\* no document has, 400 (line 140) for a CastError or a validation error.
\* The body is not read before the lookup succeeds.
PatchLookup(pid, status, comment) ==
    /\ Quiet
    /\ InFlight < MaxReq
    /\ IF ~IsObjectId(pid)
       THEN /\ patching' = patching
            /\ resp' = [op |-> "patch", code |-> 400, id |-> pid]
       ELSE IF pid \notin StoredIds
       THEN /\ patching' = patching
            /\ resp' = [op |-> "patch", code |-> 404, id |-> pid]
       ELSE LET found == store[IndexOf(pid)]
                doc   == Mutated(found, status, comment, clock)
            IN  /\ Truthy(comment) => Len(found.comments) < MaxComments
                /\ (Truthy(status) /\ status # found.status)
                      => Len(found.statusHistory) < MaxHistory
                /\ IF Validate(doc)
                   THEN /\ patching' = patching (+)
                                     One([id |-> pid, found |-> found, doc |-> doc,
                                          status |-> status, comment |-> comment,
                                          at |-> clock])
                        /\ resp' = [op |-> "patch", code |-> 0, id |-> pid,
                                    status |-> status, comment |-> comment]
                   ELSE /\ patching' = patching
                        /\ resp' = [op |-> "patch", code |-> 400, id |-> pid,
                                    status |-> status, comment |-> comment]
    /\ UNCHANGED <<store, creating, clock>>

\* What save() sends for a document loaded as `found` and changed to `doc`:
\* $set of the modified status, $push of the elements added to each array.
Pushed(before, after) == SubSeq(after, Len(before) + 1, Len(after))

\* (Variant: save() writing the handler's whole arrays, a $set in place of
\* the $push.)
ApplyUpdateOverwriteMut(stored, found, doc) ==
    [stored EXCEPT
        !.status        = IF doc.status # found.status THEN doc.status ELSE @,
        !.comments      = doc.comments,
        !.statusHistory = doc.statusHistory]
\* (Variant: save() writing the handler's status whether or not the handler
\* changed it.)
ApplyUpdateSetAllMut(stored, found, doc) ==
    [stored EXCEPT
        !.status        = doc.status,
        !.comments      = @ \o Pushed(found.comments, doc.comments),
        !.statusHistory = @ \o Pushed(found.statusHistory, doc.statusHistory)]
ApplyUpdate(stored, found, doc) ==
    [stored EXCEPT
        !.status        = IF doc.status # found.status THEN doc.status ELSE @,
        !.comments      = @ \o Pushed(found.comments, doc.comments),
        !.statusHistory = @ \o Pushed(found.statusHistory, doc.statusHistory)]

\* (Variant: the update sent without the _id filter.)
UpdateOneMut(st, oid, found, doc) ==
    [i \in DOMAIN st |-> ApplyUpdate(st[i], found, doc)]
\* save() at line 136 updates the one document whose _id is the handler's.
UpdateOne(st, oid, found, doc) ==
    [st EXCEPT ![IndexOf(oid)] = ApplyUpdate(@, found, doc)]

\* Lines 136-137: the update and the 200 response, whose data is the
\* handler's document.
PatchSave(r) ==
    /\ Quiet
    /\ BagIn(r, patching)
    /\ store' = UpdateOne(store, r.id, r.found, r.doc)
    /\ resp' = [op |-> "patch", code |-> 200, id |-> r.id,
                status |-> r.status, comment |-> r.comment, at |-> r.at, data |-> r.doc]
    /\ patching' = patching (-) One(r)
    /\ UNCHANGED <<creating, clock>>

(* ------------------------ GET /api/complaints --------------------------- *)
\* (Variant: an ascending sort, { createdAt: 1 }.)
GoesBeforeMut(x, y, tieFirst) ==
    x.createdAt < y.createdAt \/ (tieFirst /\ x.createdAt = y.createdAt)
\* sort({ createdAt: -1 }): x goes before y when it is newer; the order the
\* database gives to equal keys is not specified (tieFirst).
GoesBefore(x, y, tieFirst) ==
    x.createdAt > y.createdAt \/ (tieFirst /\ x.createdAt = y.createdAt)

RECURSIVE InsertDesc(_, _, _)
InsertDesc(x, sorted, tieFirst) ==
    IF sorted = <<>> THEN <<x>>
    ELSE IF GoesBefore(x, Head(sorted), tieFirst) THEN <<x>> \o sorted
    ELSE <<Head(sorted)>> \o InsertDesc(x, Tail(sorted), tieFirst)

RECURSIVE SortDesc(_, _)
SortDesc(docs, tieFirst) ==
    IF docs = <<>> THEN <<>>
    ELSE InsertDesc(Head(docs), SortDesc(Tail(docs), tieFirst), tieFirst)

\* Lines 107-110.
List(tieFirst) ==
    /\ Quiet
    /\ resp' = [op |-> "list", code |-> 200, data |-> SortDesc(store, tieFirst)]
    /\ UNCHANGED <<store, creating, patching, clock>>

(* ------------------------ POST /api/admin/login ------------------------- *)
\* Strings are sequences of characters; " " is the whitespace character.
Chars == {" ", "a", "b"}
Strings == UNION {[1..n -> Chars] : n \in 0..MaxStrLen}

RECURSIVE TrimStart(_)
TrimStart(str) ==
    IF str # <<>> /\ Head(str) = " " THEN TrimStart(Tail(str)) ELSE str

RECURSIVE TrimEnd(_)
TrimEnd(str) ==
    IF str # <<>> /\ str[Len(str)] = " " THEN TrimEnd(SubSeq(str, 1, Len(str) - 1)) ELSE str

\* String.prototype.trim (lines 156-157).
Trim(str) == TrimEnd(TrimStart(str))

\* Lines 160-161, the configured credentials.
ADMIN_EMAIL    == <<"a">>
ADMIN_PASSWORD == <<"b">>

\* (Variant: line 175 with || for &&.)
CredentialsMatchMut(cleanEmail, cleanPassword) ==
    cleanEmail = ADMIN_EMAIL \/ cleanPassword = ADMIN_PASSWORD
\* Line 175.
CredentialsMatch(cleanEmail, cleanPassword) ==
    cleanEmail = ADMIN_EMAIL /\ cleanPassword = ADMIN_PASSWORD

NoToken == [email |-> <<>>, role |-> "none"]

\* Lines 145-196.  An absent field and "" are both falsy at line 150.
Login(email, password) ==
    /\ Quiet
    /\ resp' =
         IF email = <<>> \/ password = <<>>
         THEN [op |-> "login", code |-> 400, reqEmail |-> email, reqPassword |-> password,
               message |-> "Email and password are required",
               token |-> NoToken, email |-> <<>>]
         ELSE IF CredentialsMatch(Trim(email), Trim(password))
         THEN [op |-> "login", code |-> 200, reqEmail |-> email, reqPassword |-> password,
               message |-> "Login successful",
               token |-> [email |-> email, role |-> "admin"], email |-> Trim(email)]
         ELSE [op |-> "login", code |-> 401, reqEmail |-> email, reqPassword |-> password,
               message |-> "Invalid credentials",
               token |-> NoToken, email |-> <<>>]
    /\ UNCHANGED <<store, creating, patching, clock>>

(* --------------------------- specifications ----------------------------- *)
NoneInFlight == InFlight = 0

\* The complaint store with handlers interleaving at their awaits.  The
\* clock advances between bursts of overlapping requests, not inside one.
Next ==
    \/ Sent
    \/ NoneInFlight /\ Tick
    \/ \E body \in RaceBodies : CreateBegin(body, MaxRaceComplaints)
    \/ \E doc \in BagToSet(creating) : CreateInsert(doc)
    \/ \E pid \in RacePathIds, status \in RacePatchStatuses, comment \in RacePatchComments :
          PatchLookup(pid, status, comment)
    \/ \E r \in BagToSet(patching) : PatchSave(r)
    \/ \E tieFirst \in BOOLEAN : List(tieFirst)

Spec == Init /\ [][Next]_vars

\* The complaint store with one request at a time: a handler starts only
\* when no other handler is in flight.
NextSerial ==
    \/ Sent
    \/ NoneInFlight /\ Tick
    \/ \E body \in CreateBodies : NoneInFlight /\ CreateBegin(body, MaxComplaints)
    \/ \E doc \in BagToSet(creating) : CreateInsert(doc)
    \/ \E pid \in PathIds, status \in PatchStatuses, comment \in PatchComments :
          NoneInFlight /\ PatchLookup(pid, status, comment)
    \/ \E r \in BagToSet(patching) : PatchSave(r)
    \/ \E tieFirst \in BOOLEAN : NoneInFlight /\ List(tieFirst)

SpecSerial == Init /\ [][NextSerial]_vars

\* Overlapping status updates of one complaint towards different statuses.
RivalStatuses == {Undefined, "Resolved", "In Review"}
RivalBodies ==
    { GoodBody("T1"),
      With(GoodBody("T1"), "status", "Escalated"),
      With(GoodBody("T1"), "statusHistory", OldHistory) }

NextRivals ==
    \/ Sent
    \/ NoneInFlight /\ Tick
    \/ \E body \in RivalBodies : NoneInFlight /\ CreateBegin(body, MaxRaceComplaints)
    \/ \E doc \in BagToSet(creating) : CreateInsert(doc)
    \/ \E pid \in StoredIds, status \in RivalStatuses :
          PatchLookup(pid, status, Undefined)
    \/ \E r \in BagToSet(patching) : PatchSave(r)

SpecRivals == Init /\ [][NextRivals]_vars

(* ------------------------- storage failures ----------------------------- *)
\* A call on the database rejects (the connection is lost, the server is
\* down): the handler's catch block answers.

\* Line 99 rejects, lines 101-103 answer 400; nothing is stored.
CreateStorageError(doc) ==
    /\ Quiet
    /\ BagIn(doc, creating)
    /\ creating' = creating (-) One(doc)
    /\ resp' = [op |-> "create", code |-> 400, error |-> "storage"]
    /\ UNCHANGED <<store, patching, clock>>

\* Line 119 rejects, lines 139-141 answer 400.
PatchFindStorageError(pid) ==
    /\ Quiet
    /\ resp' = [op |-> "patch", code |-> 400, id |-> pid, error |-> "storage"]
    /\ UNCHANGED <<store, creating, patching, clock>>

\* Line 136 rejects, lines 139-141 answer 400; nothing is stored.
PatchSaveStorageError(r) ==
    /\ Quiet
    /\ BagIn(r, patching)
    /\ patching' = patching (-) One(r)
    /\ resp' = [op |-> "patch", code |-> 400, id |-> r.id, error |-> "storage"]
    /\ UNCHANGED <<store, creating, clock>>

\* Line 109 rejects, lines 111-113 answer 500.
ListStorageError ==
    /\ Quiet
    /\ resp' = [op |-> "list", code |-> 500, error |-> "storage"]
    /\ UNCHANGED <<store, creating, patching, clock>>

\* One request at a time, the database failing at any call.
NextFaulty ==
    \/ NextSerial
    \/ \E doc \in BagToSet(creating) : CreateStorageError(doc)
    \/ \E pid \in PathIds : NoneInFlight /\ PatchFindStorageError(pid)
    \/ \E r \in BagToSet(patching) : PatchSaveStorageError(r)
    \/ NoneInFlight /\ ListStorageError

SpecFaulty == Init /\ [][NextFaulty]_vars

\* The admin authenticator, which holds no state between calls.
NextLogin ==
    \/ Sent
    \/ \E email \in Strings, password \in Strings : Login(email, password)

SpecLogin == Init /\ [][NextLogin]_vars

(* ------------------------------ properties ------------------------------ *)
\* The stored complaint a PATCH response is about, before and after the step.
Target(st, pid) == st[IndexOf(pid)]

\* A PATCH handler finished in this step (with 200 or 400) on a stored complaint.
PatchDone == resp'.op = "patch" /\ resp'.code # 0 /\ resp'.id \in StoredIds

C2_CreatedPendingWithOneEntry ==
    (resp.op = "create" /\ resp.code = 201) =>
        /\ store[Len(store)] = resp.data
        /\ resp.data.status = "Pending"
        /\ resp.data.statusHistory =
             <<[status |-> "Pending", time |-> resp.data.createdAt]>>

\* A Create reached its insert in this step.
InsertDone == resp'.op = "create" /\ resp'.code # 0 /\ Has(resp', "data")

TrackIdsDistinct ==
    \A i, j \in 1..Len(store) : i # j => store[i].trackId # store[j].trackId

\* C3: no two stored complaints share a trackId, and a Create whose trackId a
\* stored complaint already has is answered 400 and leaves the store as it
\* was, whether it is a retry or the loser of a race.
C3_TrackIdUnique ==
    /\ []TrackIdsDistinct
    /\ [][(InsertDone /\ resp'.data.trackId \in StoredTrackIds) =>
             (resp'.code = 400 /\ store' = store)]_vars

\* C3 witness: a Create was refused because the stored complaint has its
\* trackId, and the stored complaint is the other, earlier one.
C3_Witness ==
    /\ resp.op = "create" /\ resp.code = 400 /\ Has(resp, "data")
    /\ Len(store) = 1
    /\ store[1].trackId = resp.data.trackId
    /\ store[1].id # resp.data.id

\* C4: UpdateStatus is atomic per record, so a save that appends a
\* statusHistory entry is a save that changes the stored status: two
\* overlapping calls with the same new status append one entry, not two.
C4_AtomicUpdateStatus ==
    [][(PatchDone /\ resp'.code = 200) =>
        LET before == Target(store, resp'.id)
            after  == Target(store', resp'.id)
        IN  Len(after.statusHistory) > Len(before.statusHistory)
                => after.status # before.status]_vars

\* C5: an UpdateStatus whose status is not one of the five enumerated values
\* is answered 400 and changes nothing in the store, with or without a comment.
C5_InvalidStatusRejected ==
    [][(resp'.op = "patch" /\ resp'.id \in StoredIds
          /\ Truthy(resp'.status) /\ resp'.status \notin StatusEnum) =>
             (resp'.code = 400 /\ store' = store /\ patching' = patching)]_vars

\* C5 witness: an invalid status sent together with a comment was refused.
C5_Witness ==
    /\ resp.op = "patch" /\ resp.code = 400
    /\ resp.id \in StoredIds
    /\ resp.status = "Bogus" /\ resp.comment = "checked"
    /\ Target(store, resp.id).comments = <<>>

\* C6: every stored complaint's status is one of the five enumerated values.
C6_StatusEnumerated ==
    \A i \in 1..Len(store) : store[i].status \in StatusEnum

\* C6 witness: a complaint whose status was updated is stored, and a Create
\* with a status outside the enumeration has just been refused.
C6_Witness ==
    /\ resp.op = "create" /\ resp.code = 400 /\ Has(resp, "body")
    /\ Get(resp.body, "status") = "Bogus"
    /\ \E i \in 1..Len(store) :
          store[i].status = "Resolved" /\ Len(store[i].statusHistory) > 1

\* C7: an UpdateStatus on an id no complaint has is answered 404, whatever
\* the id in the path is.
C7_UnknownIdNotFound ==
    (resp.op = "patch" /\ resp.id \notin StoredIds) => resp.code = 404

MissingRequired(body) ==
    \E k \in {"description", "category", "trackId"} :
        Get(body, k) \in {Undefined, Null, ""}

\* C8: a Create whose description, category or trackId is missing or empty
\* is answered 400, and adds nothing to the store or to the pending inserts.
C8_MissingFieldRejected ==
    [][(resp'.op = "create" /\ Has(resp', "body") /\ MissingRequired(resp'.body)) =>
          (resp'.code = 400 /\ store' = store /\ creating' = creating)]_vars

\* C8 witness: a Create without a description was refused while a complaint
\* was stored.
C8_Witness ==
    /\ resp.op = "create" /\ resp.code = 400 /\ Has(resp, "body")
    /\ ~Has(resp.body, "description")
    /\ Len(store) = 1

SortedDesc(docs) ==
    \A i \in 1..(Len(docs) - 1) : docs[i].createdAt >= docs[i + 1].createdAt

Count(docs, d) == Cardinality({i \in 1..Len(docs) : docs[i] = d})

SameDocs(a, b) ==
    /\ Len(a) = Len(b)
    /\ \A i \in 1..Len(a) : Count(a, a[i]) = Count(b, a[i])

\* C9: List answers the stored complaints, each once, newest first; it
\* answers the empty sequence when the store is empty.
C9_ListSortedDescending ==
    resp.op = "list" =>
        /\ resp.code = 200
        /\ SortedDesc(resp.data)
        /\ SameDocs(resp.data, store)

\* C9 witness: List answered two complaints in the reverse of their
\* insertion order.
C9_Witness ==
    /\ resp.op = "list" /\ Len(resp.data) = 2
    /\ resp.data[1].createdAt > resp.data[2].createdAt
    /\ resp.data[1] = store[2] /\ resp.data[2] = store[1]

\* str is t with whitespace added in front and behind, t has none there.
IsTrimOf(t, str) ==
    /\ t = <<>> \/ (Head(t) # " " /\ t[Len(t)] # " ")
    /\ \E i \in 1..(Len(str) + 1) :
          /\ i + Len(t) - 1 <= Len(str)
          /\ SubSeq(str, i, i + Len(t) - 1) = t
          /\ \A k \in 1..Len(str) : (k < i \/ k > i + Len(t) - 1) => str[k] = " "

\* C10: Login answers 200 with a token exactly when the trimmed email and the
\* trimmed password are the configured ones; any other pair of non-empty
\* inputs gets the one 401 answer, whichever field is wrong.
C10_LoginExactlyOnMatch ==
    resp.op = "login" =>
        /\ resp.code = 200 <=>
              (IsTrimOf(ADMIN_EMAIL, resp.reqEmail) /\ IsTrimOf(ADMIN_PASSWORD, resp.reqPassword))
        /\ resp.code = 200 => resp.token # NoToken
        /\ (resp.code # 200 /\ resp.reqEmail # <<>> /\ resp.reqPassword # <<>>) =>
              /\ resp.code = 401
              /\ resp.message = "Invalid credentials"
              /\ resp.token = NoToken

\* C10 witness: credentials with whitespace in front or behind were accepted.
C10_Witness ==
    /\ resp.op = "login" /\ resp.code = 200
    /\ resp.reqEmail = <<" ">> \o ADMIN_EMAIL
    /\ resp.reqPassword = ADMIN_PASSWORD \o <<" ">>

\* str is empty once its whitespace is trimmed: it has nothing but whitespace.
Blank(str) == \A k \in 1..Len(str) : str[k] = " "

\* C11: a Login whose email or password is empty after trimming, whitespace
\* only included, is answered 400 and gets no token.
C11_BlankCredentialsRejected ==
    (resp.op = "login" /\ (Blank(resp.reqEmail) \/ Blank(resp.reqPassword))) =>
        (resp.code = 400 /\ resp.token = NoToken)

IsPrefix(a, b) == Len(a) <= Len(b) /\ SubSeq(b, 1, Len(a)) = a

\* C12: comments are append-only. Over every step each stored complaint's
\* comments are a prefix of its comments afterwards; a successful UpdateStatus
\* with a non-empty comment appends exactly that comment as the new last
\* element; one without a status leaves status and statusHistory as they were.
C12_CommentsAppendOnly ==
    [][ /\ Len(store) <= Len(store')
        /\ \A i \in 1..Len(store) :
              /\ store'[i].id = store[i].id
              /\ IsPrefix(store[i].comments, store'[i].comments)
        /\ (PatchDone /\ resp'.code = 200) =>
              LET before == Target(store, resp'.id)
                  after  == Target(store', resp'.id)
              IN  /\ Truthy(resp'.comment) =>
                        after.comments = Append(before.comments, resp'.comment)
                  /\ ~Truthy(resp'.status) =>
                        /\ after.status = before.status
                        /\ after.statusHistory = before.statusHistory
      ]_vars

\* Two overlapping comment-only updates have both been saved: the second
\* comment came after the first, and the status and its history are untouched.
C12_Witness ==
    /\ resp.op = "patch" /\ resp.code = 200 /\ resp.id \in StoredIds
    /\ resp.status = Undefined /\ resp.comment = "checked"
    /\ Target(store, resp.id).comments = <<"checked", "checked">>
    /\ Len(Target(store, resp.id).statusHistory) = 1

\* C13: every stored complaint has a non-empty statusHistory whose first
\* entry is the complaint's initial status at the time createdAt, and no later
\* step removes or alters that entry or any entry already recorded.
C13_FirstEntryIsCreation ==
    /\ [](\A i \in 1..Len(store) :
            /\ Len(store[i].statusHistory) >= 1
            /\ store[i].statusHistory[1].time = store[i].createdAt)
    /\ [][ /\ (InsertDone /\ resp'.code = 201) =>
                 resp'.data.statusHistory[1].status = resp'.data.status
           /\ \A i \in 1..Len(store) :
                 IsPrefix(store[i].statusHistory, store'[i].statusHistory)
         ]_vars

Frozen(c) == <<c.id, c.trackId, c.description, c.category, c.createdAt, c.evidence>>

\* C14: an UpdateStatus step, whatever its body and outcome, leaves the
\* target's id, trackId, description, category, createdAt and evidence as they
\* were and leaves every other stored complaint entirely unchanged.
C14_UpdateStatusFrame ==
    [][ resp'.op = "patch" =>
          /\ Len(store') = Len(store)
          /\ \A i \in 1..Len(store) :
                IF store[i].id = resp'.id
                THEN Frozen(store'[i]) = Frozen(store[i])
                ELSE store'[i] = store[i]
      ]_vars

\* A status change has been saved on the complaint that carries evidence,
\* while another complaint is stored.
C14_Witness ==
    /\ resp.op = "patch" /\ resp.code = 200 /\ resp.id \in StoredIds
    /\ Len(store) = 2
    /\ Target(store, resp.id).evidence = "photo.png"
    /\ Target(store, resp.id).trackId = "T2"
    /\ Len(Target(store, resp.id).statusHistory) = 2

\* C15: a failure of the persistence layer during Create, List or
\* UpdateStatus is answered 500, never 400.
C15_StorageErrorIs500 ==
    (Has(resp, "error") /\ resp.error = "storage") => resp.code = 500

\* C16: in the List output complaints with the same createdAt appear in the
\* order they were inserted into the store.
C16_ListTiesInInsertionOrder ==
    (resp.op = "list" /\ resp.code = 200) =>
        \A i, j \in 1..Len(resp.data) :
            (i < j /\ resp.data[i].createdAt = resp.data[j].createdAt) =>
                IndexOf(resp.data[i].id) < IndexOf(resp.data[j].id)

Last(seq) == seq[Len(seq)]

\* C17: in every reachable state, those reached through overlapping
\* UpdateStatus calls on one id included, each stored complaint's status is
\* the status of the last entry of its statusHistory.
C17_StatusIsLastHistoryEntry ==
    \A i \in 1..Len(store) :
        /\ store[i].statusHistory # <<>>
        /\ store[i].status = Last(store[i].statusHistory).status

\* Two changes of one complaint towards different statuses were looked up
\* before either was saved, and both have been saved: the history has
\* outgrown what one request at a time can record.
C17_Witness ==
    /\ resp.op = "patch" /\ resp.code = 200 /\ resp.id \in StoredIds
    /\ LET h == Target(store, resp.id).statusHistory
       IN  /\ Len(h) > MaxHistory
           /\ h[Len(h) - 1].status # Last(h).status
           /\ Target(store, resp.id).status = Last(h).status

\* C18: on every successful Login the email encoded in the token is the
\* trimmed email returned in the response body, and the token's role is admin.
C18_TokenEmailIsNormalized ==
    (resp.op = "login" /\ resp.code = 200) =>
        /\ resp.token.email = resp.email
        /\ IsTrimOf(resp.email, resp.reqEmail)
        /\ resp.token.role = "admin"
====
